---- MODULE Spec2Model ----
(***************************************************************************)
(* A model of dynamodb_session_web/_session.py: the expiration calculator, *)
(* the session id generator/validator, the session instances and the       *)
(* SessionManager operations create, create_and_save, load, save and clear *)
(* running against one DynamoDB table.                                     *)
(*                                                                         *)
(* Time.  The wall clock `now` counts ticks, TicksPerSecond of them to a   *)
(* second, so that int(dt.timestamp()) really truncates.  A datetime is    *)
(* [t, tz]; its ISO-8601 text is [digits, suffix].                         *)
(*                                                                         *)
(* Concurrency.  Every call of a manager method runs in a process of Procs.*)
(* A method is cut at its clock readings and at its store calls: each      *)
(* action below holds at most one reading of the clock and at most one     *)
(* call of the boto client, and the calls of different processes           *)
(* interleave freely.                                                      *)
(***************************************************************************)
EXTENDS Integers, Sequences, FiniteSets, TLC

\* ------------------------------------------------------------------ bounds
MaxTime == 3              \* the clock stops ticking here
TicksPerSecond == 2       \* clock resolution: ticks in one epoch second

Procs == {"p1", "p2"}     \* concurrent callers (web requests)
TokenNames == <<"t1", "t2">>   \* the draws of token_urlsafe, each made once
KnownKey == "foo"         \* the signing key of a manager that signs
ForeignKey == "evil"      \* a key the manager does not hold
\* idle_timeout_seconds / absolute_timeout_seconds a manager is built with
ManagerIdleTimeouts == {1}
ManagerAbsoluteTimeouts == {2}
\* Timeouts a caller passes as overrides or sets on an instance.  The data
\* model puts timeouts in the integers > 0.  <<>> is None.
IdleOverrides == {<<>>, <<2>>}
AbsoluteOverrides == {<<>>, <<1>>}
CallerTimeouts == {1, 2}
PayloadKeys == <<"fruit", "veg">>   \* keys, in canonical text order
PayloadVals == {"apple", "pear"}

\* ------------------------------------------------------------ pure helpers
Min(a, b) == IF a <= b THEN a ELSE b

Merge(old, new) ==
  [a \in DOMAIN old \cup DOMAIN new |-> IF a \in DOMAIN new THEN new[a] ELSE old[a]]

\* datetime.isoformat(): the UTC offset becomes the text's suffix
IsoFormat(dt) ==
  [digits |-> dt.t,
   suffix |-> CASE dt.tz = "UTC" -> "+00:00"
                [] dt.tz = "naive" -> ""
                [] OTHER -> "+01:00"]

\* datetime.fromisoformat(): the suffix decides the tzinfo, and tzname()
FromIsoFormat(iso) ==
  [t |-> iso.digits,
   tz |-> CASE iso.suffix = "+00:00" -> "UTC"
            [] iso.suffix = "" -> "naive"
            [] OTHER -> "UTC+01:00"]

\* int(dt.timestamp()) of a UTC datetime
Timestamp(dt) == dt.t \div TicksPerSecond

\* _session.py:55-67
expiration_datetime_min_of_timeouts(idle_timeout, absolute_timeout, created, accessed) ==
  \* a mutant: takes the minimum of the timeouts and adds it to accessed
  [ok |-> TRUE, error |-> "",
   value |-> Min(absolute_timeout, idle_timeout) + Timestamp(FromIsoFormat(accessed))]

expiration_datetime_idle_only(idle_timeout, absolute_timeout, created, accessed) ==
  \* a mutant: the absolute timeout is left out of the minimum
  [ok |-> TRUE, error |-> "",
   value |-> idle_timeout + Timestamp(FromIsoFormat(accessed))]

expiration_datetime_accessed_first(idle_timeout, absolute_timeout, created, accessed) ==
  \* a mutant: accessed is checked before created
  LET created_dt == FromIsoFormat(created)
      accessed_dt == FromIsoFormat(accessed)
  IN  IF accessed_dt.tz # "UTC"
        THEN [ok |-> FALSE, error |-> "'accessed' must be UTC ", value |-> 0]
      ELSE IF created_dt.tz # "UTC"
        THEN [ok |-> FALSE, error |-> "'created' must be UTC ", value |-> 0]
      ELSE [ok |-> TRUE, error |-> "",
            value |-> Min(absolute_timeout + Timestamp(created_dt),
                          idle_timeout + Timestamp(accessed_dt))]

expiration_datetime(idle_timeout, absolute_timeout, created, accessed) ==
  LET created_dt == FromIsoFormat(created)
      accessed_dt == FromIsoFormat(accessed)
  IN  IF created_dt.tz # "UTC"
        THEN [ok |-> FALSE, error |-> "'created' must be UTC ", value |-> 0]
      ELSE IF accessed_dt.tz # "UTC"
        THEN [ok |-> FALSE, error |-> "'accessed' must be UTC ", value |-> 0]
      ELSE [ok |-> TRUE, error |-> "",
            value |-> Min(absolute_timeout + Timestamp(created_dt),
                          idle_timeout + Timestamp(accessed_dt))]

\* ------------------------------------------------------------- session ids
\* A session id is [tok, sig]: the url-safe token and, after the separator,
\* the signature (<<>> when the id has no signature part).  The HMAC of a
\* token under a key is modelled as the pair <<key, token>>.
EmptySid == [tok |-> "", sig |-> <<>>]           \* the empty string ''
UnknownSid == [tok |-> "some_unknown_session_id", sig |-> <<>>]
Signature(key, tok) == <<key, tok>>

create_session_id_unsigned(tok, keys) ==
  \* a mutant: the token is handed out without a signature
  [tok |-> tok, sig |-> <<>>]

\* _session.py:29-33 (Signer signs with the newest key, the last of the list)
create_session_id(tok, keys) ==
  IF Len(keys) > 0 THEN [tok |-> tok, sig |-> Signature(keys[Len(keys)], tok)]
  ELSE [tok |-> tok, sig |-> <<>>]

\* Signer.unsign: the signature must be that of the token under one of the keys
BadSignature(session_id, keys) ==
  ~ \E i \in 1..Len(keys) : session_id.sig = Signature(keys[i], session_id.tok)

\* _session.py:36-42, by outcome
validate_session_id_unchecked(session_id, keys) ==
  \* a mutant: the signature is never verified
  IF session_id = EmptySid THEN "SessionNotFoundError" ELSE "ok"

validate_session_id_any_text(session_id, keys) ==
  \* a mutant: the empty id is not turned away
  IF Len(keys) > 0 /\ BadSignature(session_id, keys) THEN "BadSignature" ELSE "ok"

validate_session_id_always_verifies(session_id, keys) ==
  \* a mutant: the signature is verified even when there are no keys
  IF session_id = EmptySid THEN "SessionNotFoundError"
  ELSE IF BadSignature(session_id, keys) THEN "BadSignature"
  ELSE "ok"

validate_session_id(session_id, keys) ==
  IF session_id = EmptySid THEN "SessionNotFoundError"
  ELSE IF Len(keys) > 0 /\ BadSignature(session_id, keys) THEN "BadSignature"
  ELSE "ok"

\* the id with its signature replaced by one made with a key the manager lacks
Tampered(session_id) == [session_id EXCEPT !.sig = Signature(ForeignKey, session_id.tok)]

loggable_session_id_raw(sid) ==
  \* a mutant: the id itself is handed out
  sid

\* _session.py:70-71: the SHA-512 hex digest of the id, a value of its own
\* kind from which the id is not read back
loggable_session_id(sid) == [sha512 |-> sid]

\* ---------------------------------------------------------------- payloads
\* A dictionary payload is a function from some of the keys to values.
EmptyDict == [k \in {} |-> "apple"]
KeySet == {PayloadKeys[i] : i \in 1..Len(PayloadKeys)}

\* json.dumps of a dict: the text lists the entries, here in canonical order
RECURSIVE DumpFrom(_, _)
DumpFrom(d, i) ==
  IF i > Len(PayloadKeys) THEN <<>>
  ELSE IF PayloadKeys[i] \in DOMAIN d
    THEN <<<<PayloadKeys[i], d[PayloadKeys[i]]>>>> \o DumpFrom(d, i + 1)
  ELSE DumpFrom(d, i + 1)
JsonDumps_first_entry(d) ==
  \* a mutant: the text stops after the first entry
  IF DumpFrom(d, 1) = <<>> THEN <<>> ELSE <<DumpFrom(d, 1)[1]>>

JsonDumps(d) == DumpFrom(d, 1)

\* the JSON-safe maps over the keys and values: any of the keys, any values
JsonMaps == UNION {[S -> PayloadVals] : S \in SUBSET KeySet}

\* json.loads of such a text
JsonLoads(text) ==
  [k \in {text[i][1] : i \in 1..Len(text)} |->
     text[CHOOSE j \in 1..Len(text) :
            text[j][1] = k /\ \A m \in (j+1)..Len(text) : text[m][1] # k][2]]

\* --------------------------------------------------------------- instances
\* _session.py:74-117.  kind "dict" is SessionDictInstance, "null" is
\* NullSessionInstance; payload is the dict's own entries.
SessionInstance(kind, session_id, idle, absolute, created) ==
  [kind |-> kind, session_id |-> session_id,
   idle_timeout_seconds |-> idle, absolute_timeout_seconds |-> absolute,
   created |-> created, payload |-> EmptyDict]

NoInstance == [kind |-> "none"]

\* SessionDictInstance.serialize / NullSessionInstance.serialize
Serialize(instance) == JsonDumps(instance.payload)

Deserialize_pass(instance, data) ==
  \* a mutant: deserialize does nothing, as NullSessionInstance's does
  instance

\* SessionDictInstance.deserialize: dict.update with the decoded map
Deserialize(instance, data) ==
  [instance EXCEPT !.payload = Merge(instance.payload, JsonLoads(data))]

\* ------------------------------------------------------------------- state
VARIABLES
  now,        \* the wall clock, in ticks
  cfg,        \* the run's configuration: the kwargs the managers are built
              \* with, and how many sessions the callers create
  store,      \* the DynamoDB table: session id -> item (attribute name -> value)
  issued,     \* tokens the generator has drawn
  pc,         \* per process: where its current call stands
  loc,        \* per process: the locals of its current call
  handles,    \* the instances callers hold: [session_id, created] of each
  last,       \* the call that returned or raised in the latest step, if one did
  cleared,    \* ids deleted by a clear and not written by a save since
  fin,        \* the inputs of the pure function under check
  fout        \* its result

vars == <<now, cfg, store, issued, handles, pc, loc, last, cleared, fin, fout>>

current_datetime == [t |-> now, tz |-> "UTC"]          \* _session.py:45-48
current_timestamp == Timestamp(current_datetime)       \* _session.py:51-52

IdleLoc == [op |-> "none"]
\* p called op with sid; kind is "live" (a dict instance came back), "null"
\* (the null instance), "none" (no value) or "raise" (exc was raised); value
\* is the instance returned; arg is the instance a save was given; calls are
\* the boto client calls the call made; loggable_sid is what a SessionError
\* raised was constructed with (<<>> when none was)
NoLast == [p |-> "none", op |-> "none", sid |-> EmptySid, kind |-> "none",
           exc |-> "", loggable_sid |-> <<>>, value |-> NoInstance,
           arg |-> NoInstance, calls |-> <<>>]

\* SessionManager.__init__ (_session.py:165-173): sid_keys,
\* bad_session_id_raises, idle_timeout_seconds, absolute_timeout_seconds
Configs(keys, sessions) ==
  [keys : keys, raises : BOOLEAN, idle : ManagerIdleTimeouts,
   absolute : ManagerAbsoluteTimeouts, sessions : {sessions}]

InitWith(configs, inputs) ==
  /\ now = 0
  /\ cfg \in configs
  /\ fin \in inputs
  /\ store = <<>>
  /\ issued = {}
  /\ pc = [p \in Procs |-> "idle"]
  /\ loc = [p \in Procs |-> IdleLoc]
  /\ handles = {}
  /\ last = NoLast
  /\ cleared = {}
  /\ fout = <<>>

\* ------------------------------------------------------ the DynamoDB table
\* query(KeyConditionExpression='id = :sid', FilterExpression='expires > :now')
Query(table, sid, nowN) ==
  IF sid \in DOMAIN table /\ "expires" \in DOMAIN table[sid] /\ table[sid].expires > nowN
  THEN <<table[sid]>> ELSE <<>>

UpdateItem_existing_only(table, sid, fields) ==
  \* a mutant: the update is refused for a key with no item
  IF sid \in DOMAIN table
  THEN [table EXCEPT ![sid] = Merge(table[sid], fields)]
  ELSE table

UpdateItem_first_data_wins(table, sid, fields) ==
  \* a mutant: data, once an item has it, is not overwritten
  IF sid \in DOMAIN table
  THEN [table EXCEPT ![sid] =
          Merge(table[sid],
                [a \in DOMAIN fields \ (DOMAIN table[sid] \cap {"data"}) |-> fields[a]])]
  ELSE [k \in DOMAIN table \cup {sid} |-> IF k = sid THEN fields ELSE table[k]]

UpdateItem_every_item(table, sid, fields) ==
  \* a mutant: the update has no key condition and sets every item
  [k \in DOMAIN table \cup {sid} |->
     IF k \in DOMAIN table THEN Merge(table[k], fields) ELSE fields]

UpdateItem_expires_later(table, sid, fields) ==
  \* a mutant: this request sets all but expires, left to a second request
  LET rest == [a \in DOMAIN fields \ {"expires"} |-> fields[a]]
  IN  IF sid \in DOMAIN table
      THEN [table EXCEPT ![sid] = Merge(table[sid], rest)]
      ELSE [k \in DOMAIN table \cup {sid} |-> IF k = sid THEN rest ELSE table[k]]

\* update_item(Key, UpdateExpression='SET ...'): sets the named attributes of
\* the item, creating the item when the key has none
UpdateItem(table, sid, fields) ==
  IF sid \in DOMAIN table
  THEN [table EXCEPT ![sid] = Merge(table[sid], fields)]
  ELSE [k \in DOMAIN table \cup {sid} |-> IF k = sid THEN fields ELSE table[k]]

DeleteItem_whole_table(table, sid) ==
  \* a mutant: every item goes, whatever the key
  [k \in {} |-> table[k]]

\* delete_item(Key)
DeleteItem(table, sid) == [k \in DOMAIN table \ {sid} |-> table[k]]

\* ---------------------------------------------------------- SessionManager
DEFAULT_IDLE_TIMEOUT == 7200
DEFAULT_ABSOLUTE_TIMEOUT == 43200

DynamoData(data, idle_timeout, absolute_timeout, created) ==
  [data |-> data, idle_timeout |-> idle_timeout,
   absolute_timeout |-> absolute_timeout, created |-> created]

\* null_session_class(session_id=session_id): the base class defaults
NullSessionInstance(session_id) ==
  SessionInstance("null", session_id, DEFAULT_IDLE_TIMEOUT, DEFAULT_ABSOLUTE_TIMEOUT,
                  current_datetime)

CanIssue == Cardinality(issued) < cfg.sessions
NextToken == TokenNames[Cardinality(issued) + 1]
\* ids a caller can know: those of the instances returned so far
KnownSids == {h.session_id : h \in handles}
ClearSids == {UnknownSid} \cup KnownSids

Effective_manager_only(override, default) ==
  \* a mutant: the override is ignored
  default

\* _session.py:189-190, 207-208: "default if override is None else override"
Effective(override, default) == IF override = <<>> THEN default ELSE override[1]
Handle(instance) == [session_id |-> instance.session_id, created |-> instance.created]

\* a call ends: the process is idle again
Return(p, r) ==
  /\ pc' = [pc EXCEPT ![p] = "idle"]
  /\ loc' = [loc EXCEPT ![p] = IdleLoc]
  /\ last' = r

Called(p, op, sid) == [NoLast EXCEPT !.p = p, !.op = op, !.sid = sid]
Returns(r, instance) ==
  [r EXCEPT !.kind = IF instance.kind = "null" THEN "null" ELSE "live",
            !.value = instance]
Raises(r, exc) == [r EXCEPT !.kind = "raise", !.exc = exc]
\* exceptions.py:1-20: a SessionError is constructed with a loggable_sid
RaisesSessionError(r, exc, loggable_sid) ==
  [Raises(r, exc) EXCEPT !.loggable_sid = loggable_sid]
\* SessionInstanceBase.loggable_session_id (_session.py:93-95)
LoggableOf(instance) == loggable_session_id(instance.session_id)

\* a call goes on to its next step
Goto(p, l, next) ==
  /\ pc' = [pc EXCEPT ![p] = next]
  /\ loc' = [loc EXCEPT ![p] = l]
  /\ last' = NoLast

DynamoSetFields_manager_timeouts(data, modified) ==
  \* a mutant: expires is computed from the manager's timeouts
  LET current_dt == IsoFormat(current_datetime)
      exp == expiration_datetime(cfg.idle, cfg.absolute, data.created, current_dt)
      fields == [accessed |-> current_dt, expires |-> exp.value, created |-> data.created]
  IN  [ok |-> exp.ok, error |-> exp.error,
       fields |-> IF modified
                  THEN fields @@ [idle_timeout |-> data.idle_timeout,
                                  absolute_timeout |-> data.absolute_timeout,
                                  data |-> data.data]
                  ELSE fields]

DynamoSetFields_accessed_is_epoch(data, modified) ==
  \* a mutant: accessed is the start of the epoch, not a reading of the clock
  LET current_dt == IsoFormat([t |-> 0, tz |-> "UTC"])
      exp == expiration_datetime(data.idle_timeout, data.absolute_timeout,
                                 data.created, current_dt)
      fields == [accessed |-> current_dt, expires |-> exp.value, created |-> data.created]
  IN  [ok |-> exp.ok, error |-> exp.error,
       fields |-> IF modified
                  THEN fields @@ [idle_timeout |-> data.idle_timeout,
                                  absolute_timeout |-> data.absolute_timeout,
                                  data |-> data.data]
                  ELSE fields]

\* _session.py:287-299: _dynamo_set up to its store call, the clock read now
DynamoSetFields(data, modified) ==
  LET current_dt == IsoFormat(current_datetime)
      exp == expiration_datetime(data.idle_timeout, data.absolute_timeout,
                                 data.created, current_dt)
      fields == [accessed |-> current_dt, expires |-> exp.value, created |-> data.created]
  IN  [ok |-> exp.ok, error |-> exp.error,
       fields |-> IF modified
                  THEN fields @@ [idle_timeout |-> data.idle_timeout,
                                  absolute_timeout |-> data.absolute_timeout,
                                  data |-> data.data]
                  ELSE fields]

\* _session.py:175-192
Create_and_write(p, io, ao) ==
  \* a mutant: create persists the new instance as create_and_save does
  /\ pc[p] = "idle" /\ CanIssue
  /\ LET obj == SessionInstance("dict", create_session_id(NextToken, cfg.keys),
                                Effective(io, cfg.idle), Effective(ao, cfg.absolute),
                                current_datetime)
         data == DynamoData(Serialize(obj), obj.idle_timeout_seconds,
                            obj.absolute_timeout_seconds, IsoFormat(obj.created))
     IN  /\ Return(p, Returns(Called(p, "create", obj.session_id), obj))
         /\ handles' = handles \cup {Handle(obj)}
         /\ store' = UpdateItem(store, obj.session_id, DynamoSetFields(data, TRUE).fields)
  /\ issued' = issued \cup {NextToken}
  /\ UNCHANGED <<now, cfg, cleared, fin, fout>>

Create(p, io, ao) ==
  /\ pc[p] = "idle" /\ CanIssue
  /\ LET obj == SessionInstance("dict", create_session_id(NextToken, cfg.keys),
                                Effective(io, cfg.idle), Effective(ao, cfg.absolute),
                                current_datetime)
     IN  /\ Return(p, Returns(Called(p, "create", obj.session_id), obj))
         /\ handles' = handles \cup {Handle(obj)}
  /\ issued' = issued \cup {NextToken}
  /\ UNCHANGED <<now, cfg, store, cleared, fin, fout>>

\* _session.py:207-212: create_and_save builds the instance (its created is
\* the clock as read in SessionInstanceBase.__init__)
CasConstruct(p, io, ao) ==
  /\ pc[p] = "idle" /\ CanIssue
  /\ LET sid == create_session_id(NextToken, cfg.keys)
         obj == SessionInstance("dict", sid, Effective(io, cfg.idle),
                                Effective(ao, cfg.absolute), current_datetime)
     IN  Goto(p, [op |-> "create_and_save", sid |-> sid, obj |-> obj, calls |-> <<>>],
              "cas_created")
  /\ issued' = issued \cup {NextToken}
  /\ UNCHANGED <<now, cfg, store, handles, cleared, fin, fout>>

\* _session.py:214-218: the DynamoData, its created a second reading of the clock
CasCreated(p) ==
  /\ pc[p] = "cas_created"
  /\ LET obj == loc[p].obj
         data == DynamoData(Serialize(obj), obj.idle_timeout_seconds,
                            obj.absolute_timeout_seconds, IsoFormat(current_datetime))
     IN  Goto(p, loc[p] @@ [data |-> data, modified |-> TRUE], "cas_clock")
  /\ UNCHANGED <<now, cfg, store, issued, handles, cleared, fin, fout>>

\* _session.py:262-284: [kind, data]; kind is "data", "none" (None is
\* returned) or "KeyError" (a subscript finds no such attribute in the item)
DynamoGetAttributes == {"idle_timeout", "absolute_timeout", "created", "data"}
NoData == DynamoData(<<>>, 0, 0, IsoFormat(current_datetime))

dynamo_get_unsigned(table, session_id) ==
  \* a mutant: the query is keyed by the token, the signature stripped
  LET res == Query(table, [session_id EXCEPT !.sig = <<>>], current_timestamp)
  IN  IF res = <<>> THEN [kind |-> "none", data |-> NoData]
      ELSE IF ~ (DynamoGetAttributes \subseteq DOMAIN res[1])
        THEN [kind |-> "KeyError", data |-> NoData]
      ELSE [kind |-> "data",
            data |-> DynamoData(res[1].data, res[1].idle_timeout,
                                res[1].absolute_timeout, res[1].created)]

dynamo_get(table, session_id) ==
  LET res == Query(table, session_id, current_timestamp)
  IN  IF res = <<>> THEN [kind |-> "none", data |-> NoData]
      ELSE IF ~ (DynamoGetAttributes \subseteq DOMAIN res[1])
        THEN [kind |-> "KeyError", data |-> NoData]
      ELSE [kind |-> "data",
            data |-> DynamoData(res[1].data, res[1].idle_timeout,
                                res[1].absolute_timeout, res[1].created)]

Load_touching(p, session_id) ==
  \* a mutant: a load whose query finds nothing stamps accessed on the id
  /\ pc[p] = "idle"
  /\ LET v == validate_session_id(session_id, cfg.keys)
         r == Called(p, "load", session_id)
         got == dynamo_get(store, session_id)
         rq == [r EXCEPT !.calls = <<"query">>]
         digest == loggable_session_id(session_id)
         touched == UpdateItem(store, session_id,
                               [accessed |-> IsoFormat(current_datetime)])
     IN  IF v = "SessionNotFoundError"
           THEN /\ Return(p, RaisesSessionError(r, "SessionNotFoundError",
                                                loggable_session_id(EmptySid)))
                /\ store' = store
         ELSE IF v = "BadSignature"
           THEN /\ store' = store
                /\ IF cfg.raises
                   THEN Return(p, RaisesSessionError(r, "InvalidSessionIdError", digest))
                   ELSE Return(p, Returns(r, NullSessionInstance(session_id)))
         ELSE IF got.kind = "KeyError"
           THEN Return(p, Raises(rq, "KeyError")) /\ store' = store
         ELSE IF got.kind = "none"
           THEN /\ store' = touched
                /\ IF cfg.raises
                   THEN Return(p, RaisesSessionError(rq, "SessionNotFoundError", digest))
                   ELSE Return(p, Returns(rq, NullSessionInstance(session_id)))
         ELSE /\ store' = store
              /\ Goto(p, [op |-> "load", sid |-> session_id, data |-> got.data,
                          modified |-> FALSE, calls |-> <<"query">>], "load_clock")
  /\ UNCHANGED <<now, cfg, issued, handles, cleared, fin, fout>>

\* _session.py:221-234: load up to and including its query
Load(p, session_id) ==
  /\ pc[p] = "idle"
  /\ LET v == validate_session_id(session_id, cfg.keys)
         r == Called(p, "load", session_id)
         got == dynamo_get(store, session_id)
         rq == [r EXCEPT !.calls = <<"query">>]
         digest == loggable_session_id(session_id)
     IN  IF v = "SessionNotFoundError"
           THEN Return(p, RaisesSessionError(r, "SessionNotFoundError",
                                             loggable_session_id(EmptySid)))
         ELSE IF v = "BadSignature"
           THEN IF cfg.raises
                THEN Return(p, RaisesSessionError(r, "InvalidSessionIdError", digest))
                ELSE Return(p, Returns(r, NullSessionInstance(session_id)))
         ELSE IF got.kind = "KeyError" THEN Return(p, Raises(rq, "KeyError"))
         ELSE IF got.kind = "none"
           THEN IF cfg.raises
                THEN Return(p, RaisesSessionError(rq, "SessionNotFoundError", digest))
                ELSE Return(p, Returns(rq, NullSessionInstance(session_id)))
         ELSE Goto(p, [op |-> "load", sid |-> session_id, data |-> got.data,
                       modified |-> FALSE, calls |-> <<"query">>], "load_clock")
  /\ UNCHANGED <<now, cfg, store, issued, handles, cleared, fin, fout>>

\* the instance of a handle with the attributes its holder has set on it
Held(h, idle, absolute, payload) ==
  [SessionInstance("dict", h.session_id, idle, absolute, h.created)
     EXCEPT !.payload = payload]

\* _session.py:244-249 and 287-299: save up to its store call.  (Only dict
\* instances are held: saving a null instance hands the client a None
\* payload, which it refuses before any request.)
Save(p, instance) ==
  /\ pc[p] = "idle"
  /\ LET data == DynamoData(Serialize(instance), instance.idle_timeout_seconds,
                            instance.absolute_timeout_seconds, IsoFormat(instance.created))
         set == DynamoSetFields(data, TRUE)
         l == [op |-> "save", sid |-> instance.session_id, obj |-> instance,
               modified |-> TRUE, fields |-> set.fields, calls |-> <<>>]
         r == [Called(p, "save", instance.session_id) EXCEPT !.arg = instance]
     IN  IF set.ok THEN Goto(p, l, "save_write")
         ELSE Return(p, Raises(r, "ValueError"))
  /\ UNCHANGED <<now, cfg, store, issued, handles, cleared, fin, fout>>

\* _session.py:287-299: _dynamo_set of load and create_and_save reads the clock
DynamoSetClock(p, at, next) ==
  /\ pc[p] = at
  /\ LET set == DynamoSetFields(loc[p].data, loc[p].modified)
     IN  IF set.ok THEN Goto(p, loc[p] @@ [fields |-> set.fields], next)
         ELSE Return(p, Raises(Called(p, loc[p].op, loc[p].sid), "ValueError"))
  /\ UNCHANGED <<now, cfg, store, issued, handles, cleared, fin, fout>>

LoadedInstance_manager_defaults(session_id, data) ==
  \* a mutant: the instance gets the timeouts of the manager that loads it
  Deserialize(SessionInstance("dict", session_id, cfg.idle, cfg.absolute,
                              FromIsoFormat(data.created)),
              data.data)

\* _session.py:236-242: the instance load returns
LoadedInstance(session_id, data) ==
  Deserialize(SessionInstance("dict", session_id, data.idle_timeout,
                              data.absolute_timeout, FromIsoFormat(data.created)),
              data.data)

\* _session.py:311-316: update_item, and the caller's return
DynamoSetWrite(p, at) ==
  /\ pc[p] = at
  /\ LET l == loc[p]
         r == [Called(p, l.op, l.sid) EXCEPT
                 !.calls = Append(l.calls, "update_item"),
                 !.arg = IF l.op = "save" THEN l.obj ELSE NoInstance]
         value == CASE l.op = "create_and_save" -> l.obj
                    [] l.op = "load" -> LoadedInstance(l.sid, l.data)
                    [] OTHER -> NoInstance
     IN  /\ store' = UpdateItem(store, l.sid, l.fields)
         /\ cleared' = IF l.modified THEN cleared \ {l.sid} ELSE cleared
         /\ IF value = NoInstance
              THEN Return(p, r) /\ UNCHANGED handles
            ELSE Return(p, Returns(r, value)) /\ handles' = handles \cup {Handle(value)}
  /\ UNCHANGED <<now, cfg, issued, fin, fout>>

\* _session.py:251-257
Clear(p, session_id) ==
  /\ pc[p] = "idle"
  /\ store' = DeleteItem(store, session_id)
  /\ cleared' = cleared \cup {session_id}
  /\ Return(p, [Called(p, "clear", session_id) EXCEPT !.calls = <<"delete_item">>])
  /\ UNCHANGED <<now, cfg, issued, handles, fin, fout>>

\* time passes
Tick ==
  /\ now < MaxTime
  /\ now' = now + 1
  /\ last' = NoLast
  /\ UNCHANGED <<cfg, store, issued, handles, pc, loc, cleared, fin, fout>>

Payloads == {EmptyDict} \cup {[k \in KeySet |-> v] : v \in PayloadVals}

\* What the callers of a run do: the timeout overrides they pass to create
\* and create_and_save (io, ao), the <<idle, absolute>> timeouts and the
\* payloads of the instances they save, and the ids they load.
Callers(io, ao, timeouts, payloads, probes) ==
  [io |-> io, ao |-> ao, timeouts |-> timeouts, payloads |-> payloads, probes |-> probes]

AllCallers ==
  Callers(IdleOverrides, AbsoluteOverrides, CallerTimeouts \X CallerTimeouts, Payloads,
          {EmptySid, UnknownSid})

\* one step of a call of process p
CreateStep(p, c) == \E io \in c.io, ao \in c.ao : Create(p, io, ao)
CreateAndSaveStep(p, c) ==
  \/ \E io \in c.io, ao \in c.ao : CasConstruct(p, io, ao)
  \/ CasCreated(p)
  \/ DynamoSetClock(p, "cas_clock", "cas_write")
  \/ DynamoSetWrite(p, "cas_write")
LoadStep(p, c) ==
  \/ \E sid \in c.probes \cup KnownSids \cup {Tampered(s) : s \in KnownSids} : Load(p, sid)
  \/ DynamoSetClock(p, "load_clock", "load_write")
  \/ DynamoSetWrite(p, "load_write")
SaveStep(p, c) ==
  \/ \E h \in handles, t \in c.timeouts, d \in c.payloads : Save(p, Held(h, t[1], t[2], d))
  \/ DynamoSetWrite(p, "save_write")
ClearStep(p, c) == \E sid \in ClearSids : Clear(p, sid)

\* ---------------------------------------------------------- specifications
\* Spec: a manager that does not sign its ids, under concurrent callers that
\* create, save, load and clear one session.
SpecCallers ==
  Callers(IdleOverrides, AbsoluteOverrides, {<<1, 2>>, <<2, 1>>}, {EmptyDict},
          {EmptySid, UnknownSid})

Init == InitWith(Configs({<<>>}, 1), {<<>>})

Next ==
  \/ Tick
  \/ \E p \in Procs :
       \/ CreateStep(p, SpecCallers)
       \/ CreateAndSaveStep(p, SpecCallers)
       \/ LoadStep(p, SpecCallers)
       \/ SaveStep(p, SpecCallers)
       \/ ClearStep(p, SpecCallers)

Spec == Init /\ [][Next]_vars

\* SpecSigned: the same callers, the manager signing its ids with KnownKey.
InitSigned == InitWith(Configs({<<KnownKey>>}, 1), {<<>>})
SpecSigned == InitSigned /\ [][Next]_vars

\* SpecLoads: a session is created and saved, and from then on only loaded,
\* by callers whose loads overlap.
LoadCallers ==
  Callers(IdleOverrides, AbsoluteOverrides, {}, {EmptyDict}, {})

NextLoads ==
  \/ Tick
  \/ \E p \in Procs :
       \/ CreateAndSaveStep(p, LoadCallers)
       \/ LoadStep(p, LoadCallers)

SpecLoads == Init /\ [][NextLoads]_vars

\* SpecExpiration: the expiration calculator on its own.  The inputs are
\* drawn in the initial state; the one step applies the function to their
\* ISO texts, as its callers and its tests do.
Zones == {"UTC", "naive", "UTC+01:00"}
Instants == [t : 0..MaxTime, tz : Zones]
ExpirationInputs ==
  [idle_timeout : 0..2, absolute_timeout : 0..2, created : Instants, accessed : Instants]

InitExpiration ==
  InitWith({c \in Configs({<<>>}, 1) : ~ c.raises}, {<<x>> : x \in ExpirationInputs})

ApplyExpiration ==
  /\ fin # <<>> /\ fout = <<>>
  /\ fout' = <<expiration_datetime(fin[1].idle_timeout, fin[1].absolute_timeout,
                                   IsoFormat(fin[1].created), IsoFormat(fin[1].accessed))>>
  /\ UNCHANGED <<now, cfg, store, issued, handles, pc, loc, last, cleared, fin>>

SpecExpiration == InitExpiration /\ [][ApplyExpiration]_vars

\* SpecSeq: one caller, whose calls therefore never overlap (time still
\* passes inside a call), on managers with and without signing keys; the
\* caller saves instances with changed timeouts and payloads.
SeqProcs == {"p1"}
SeqCallers ==
  Callers(IdleOverrides, AbsoluteOverrides, {<<1, 2>>, <<2, 1>>}, Payloads,
          {EmptySid, UnknownSid})

InitSeq == InitWith(Configs({<<>>, <<KnownKey>>}, 1), {<<>>})

NextSeq ==
  \/ Tick
  \/ \E p \in SeqProcs :
       \/ CreateStep(p, SeqCallers)
       \/ CreateAndSaveStep(p, SeqCallers)
       \/ LoadStep(p, SeqCallers)
       \/ SaveStep(p, SeqCallers)
       \/ ClearStep(p, SeqCallers)

SpecSeq == InitSeq /\ [][NextSeq]_vars

\* SpecSaves: concurrent callers create a session and then save and load
\* it, with changed timeouts and payloads; their calls overlap.
SaveCallers ==
  Callers({<<>>}, {<<>>}, {<<1, 2>>, <<2, 1>>}, Payloads, {})

NextSaves ==
  \/ Tick
  \/ \E p \in Procs :
       \/ CreateStep(p, SaveCallers)
       \/ SaveStep(p, SaveCallers)
       \/ LoadStep(p, SaveCallers)

SpecSaves == Init /\ [][NextSaves]_vars

\* SpecRoundTrip: serialize and deserialize of the dictionary instance on
\* their own.  The inputs are a map x and the entries the receiving instance
\* already holds; the one step serializes an instance holding x and
\* deserializes the text into the receiving instance.
RoundTripInputs == [x : JsonMaps, into : JsonMaps]

InitRoundTrip ==
  InitWith({c \in Configs({<<>>}, 1) : ~ c.raises}, {<<i>> : i \in RoundTripInputs})

ApplyRoundTrip ==
  /\ fin # <<>> /\ fout = <<>>
  /\ LET source == [SessionInstance("dict", UnknownSid, cfg.idle, cfg.absolute,
                                    current_datetime) EXCEPT !.payload = fin[1].x]
         target == [SessionInstance("dict", UnknownSid, cfg.idle, cfg.absolute,
                                    current_datetime) EXCEPT !.payload = fin[1].into]
     IN  fout' = <<Deserialize(target, Serialize(source))>>
  /\ UNCHANGED <<now, cfg, store, issued, handles, pc, loc, last, cleared, fin>>

SpecRoundTrip == InitRoundTrip /\ [][ApplyRoundTrip]_vars

\* SpecTwoSaves: concurrent callers create a session and save it, with
\* changed timeouts and payloads; their saves overlap.
NextTwoSaves ==
  \/ Tick
  \/ \E p \in Procs :
       \/ CreateStep(p, SaveCallers)
       \/ SaveStep(p, SaveCallers)

SpecTwoSaves == Init /\ [][NextTwoSaves]_vars

\* SpecTwoSessions: one caller creates two sessions and saves, loads and
\* clears them in turn, on managers with and without signing keys.
TwoSessionCallers == Callers({<<>>}, {<<>>}, {<<1, 2>>, <<2, 1>>}, {EmptyDict}, {UnknownSid})

InitTwoSessions == InitWith(Configs({<<>>, <<KnownKey>>}, 2), {<<>>})

NextTwoSessions ==
  \/ Tick
  \/ \E p \in SeqProcs :
       \/ CreateStep(p, TwoSessionCallers)
       \/ CreateAndSaveStep(p, TwoSessionCallers)
       \/ LoadStep(p, TwoSessionCallers)
       \/ SaveStep(p, TwoSessionCallers)
       \/ ClearStep(p, TwoSessionCallers)

SpecTwoSessions == InitTwoSessions /\ [][NextTwoSessions]_vars

\* SpecAnyTimeouts: one caller creates a session and saves it, passing
\* any integer as a timeout override and setting any integer on the
\* instance: zero and a negative number among them.
AnyTimeoutCallers ==
  Callers({<<>>, <<0>>, <<-1>>}, {<<>>, <<0>>, <<-1>>},
          {<<1, 2>>, <<0, 2>>, <<1, -1>>}, {EmptyDict}, {})

NextAnyTimeouts ==
  \/ Tick
  \/ \E p \in SeqProcs :
       \/ CreateStep(p, AnyTimeoutCallers)
       \/ CreateAndSaveStep(p, AnyTimeoutCallers)
       \/ SaveStep(p, AnyTimeoutCallers)

SpecAnyTimeouts == InitSeq /\ [][NextAnyTimeouts]_vars

\* ------------------------------------------------------------------ claims
Epoch(dt) == dt.t \div TicksPerSecond
StoredCreated(sid) == Timestamp(FromIsoFormat(store[sid].created))
StoredAccessed(sid) == Timestamp(FromIsoFormat(store[sid].accessed))
\* the table holds an item for sid that the query's filter lets through
Visible(sid) == sid \in DOMAIN store /\ store[sid].expires > current_timestamp
\* this step is process p calling load(sid), up to the end of its query
LoadCall(p, sid) ==
  /\ pc[p] = "idle"
  /\ \/ last'.p = p /\ last'.op = "load" /\ last'.sid = sid
     \/ pc'[p] = "load_clock" /\ loc'[p].sid = sid
\* the call in `last` gave the null instance carrying sid (default), or
\* raised SessionNotFoundError (strict)
NullOrNotFound(r) ==
  IF cfg.raises THEN r.kind = "raise" /\ r.exc = "SessionNotFoundError"
  ELSE r.kind = "null" /\ r.value.kind = "null" /\ r.value.session_id = r.sid

\* C1: for UTC instants created <= accessed the expiration calculator returns
\* exactly min(created_epoch + absolute_timeout, accessed_epoch + idle_timeout).
C1_ExpirationIsMin ==
  (/\ fout # <<>>
   /\ fin[1].created.tz = "UTC" /\ fin[1].accessed.tz = "UTC"
   /\ fin[1].created.t <= fin[1].accessed.t)
  => /\ fout[1].ok
     /\ \/ fout[1].value = Epoch(fin[1].created) + fin[1].absolute_timeout
        \/ fout[1].value = Epoch(fin[1].accessed) + fin[1].idle_timeout
     /\ fout[1].value <= Epoch(fin[1].created) + fin[1].absolute_timeout
     /\ fout[1].value <= Epoch(fin[1].accessed) + fin[1].idle_timeout

\* C1 witness: the calculator has returned the absolute bound, which lies
\* strictly below accessed + idle (the test's "Absolute causes expiration")
C1_Witness ==
  /\ fout # <<>> /\ fout[1].ok
  /\ fin[1].created.t < fin[1].accessed.t
  /\ fout[1].value = Epoch(fin[1].created) + fin[1].absolute_timeout
  /\ fout[1].value < Epoch(fin[1].accessed) + fin[1].idle_timeout

\* C2: absolute timeout wins.  However the loads of a session overlap, (a) no
\* item's expires ever lies past created + absolute_timeout, and (b) a load
\* whose query runs when now >= created + absolute_timeout gives the null
\* instance (default) or raises SessionNotFoundError (strict).
C2_AbsoluteWins ==
  [][/\ \A sid \in DOMAIN store' :
          store'[sid].expires <= Timestamp(FromIsoFormat(store'[sid].created))
                                   + store'[sid].absolute_timeout
     /\ \A p \in Procs, sid \in DOMAIN store :
          (LoadCall(p, sid)
             /\ current_timestamp >= StoredCreated(sid) + store[sid].absolute_timeout)
          => (last'.p = p /\ last'.op = "load" /\ NullOrNotFound(last'))]_vars

\* C2 witness: a load has just come back empty-handed for an item whose
\* absolute timeout has passed although its idle timeout, counted from the
\* last access, has not
C2_Witness ==
  /\ last.op = "load" /\ last.kind \in {"null", "raise"}
  /\ last.sid \in DOMAIN store
  /\ current_timestamp >= StoredCreated(last.sid) + store[last.sid].absolute_timeout
  /\ current_timestamp < StoredAccessed(last.sid) + store[last.sid].idle_timeout

\* C3: a load that reads the store returns a live instance if and only if
\* the table then holds an item for the id with expires > now; otherwise
\* (no item, or expires <= now) it gives the null instance carrying the id
\* (default) or raises SessionNotFoundError (strict).
C3_LiveIffVisible ==
  [][\A p \in Procs :
       /\ \A sid \in KnownSids \cup {UnknownSid} :
            LoadCall(p, sid) =>
              /\ (pc'[p] = "load_clock") <=> Visible(sid)
              /\ pc'[p] = "idle" => NullOrNotFound(last')
       /\ (pc[p] = "load_write" /\ pc'[p] = "idle") =>
            (last'.kind = "live" /\ last'.value.session_id = loc[p].sid)]_vars

\* C4: create performs no store write: the step in which create returns
\* leaves the table as it was, with no item for the id it returns.
C4_CreateWritesNothing ==
  [][last'.op = "create" =>
       (store' = store /\ last'.calls = <<>> /\ last'.sid \notin DOMAIN store')]_vars

\* C4 witness: create has just returned an instance whose id has no item
C4_Witness ==
  /\ last.op = "create" /\ last.kind = "live"
  /\ last.value.session_id = last.sid /\ last.sid \notin DOMAIN store

\* C5, as stated: a load called right after create_and_save has returned
\* finds the record, and returns a live instance with that id.
C5_ReadableAfterCreateAndSave ==
  [][\A p \in Procs :
       /\ (last.op = "create_and_save" /\ LoadCall(p, last.sid))
            => pc'[p] = "load_clock"
       /\ (pc[p] = "load_write" /\ pc'[p] = "idle") =>
            (/\ last'.op = "load" /\ last'.kind = "live"
             /\ last'.value.kind = "dict" /\ last'.value.session_id = loc[p].sid)]_vars

\* C5, amended: create_and_save has stored a record when it returns, and a
\* load called right after it, at a clock second before
\* created + min(idle_timeout, absolute_timeout), finds the record and returns
\* a live instance with that id.
C5_ReadableBeforeTimeout ==
  [][\A p \in Procs :
       /\ (last.op = "create_and_save" /\ LoadCall(p, last.sid))
            => /\ last.sid \in DOMAIN store
               /\ current_timestamp < StoredCreated(last.sid)
                    + Min(store[last.sid].idle_timeout, store[last.sid].absolute_timeout)
                  => pc'[p] = "load_clock"
       /\ (pc[p] = "load_write" /\ pc'[p] = "idle") =>
            (/\ last'.op = "load" /\ last'.kind = "live"
             /\ last'.value.kind = "dict" /\ last'.value.session_id = loc[p].sid)]_vars

\* C5 witness: a load has found, in a second after that of its creation, the
\* record create_and_save wrote (no save wrote it: its created is not that of
\* the one instance callers hold, and it was never cleared)
C5_Witness ==
  \E p \in Procs :
    /\ pc[p] = "load_clock" /\ loc[p].sid \in DOMAIN store
    /\ cleared = {} /\ Cardinality(handles) = 1
    /\ \A h \in handles : IsoFormat(h.created) # store[loc[p].sid].created
    /\ StoredCreated(loc[p].sid) < current_timestamp
    /\ current_timestamp < StoredCreated(loc[p].sid)
         + Min(store[loc[p].sid].idle_timeout, store[loc[p].sid].absolute_timeout)

\* C6: load of an id that was never stored (and that validation does not
\* reject as badly signed) gives the null instance carrying the id when
\* bad_session_id_raises is false, and raises SessionNotFoundError when true.
C6_NeverStoredIsNull ==
  (/\ last.op = "load" /\ last.sid \notin KnownSids
   /\ validate_session_id(last.sid, cfg.keys) # "BadSignature")
  => NullOrNotFound(last)

\* C7: with bad_session_id_raises false, load is total: whatever id it is
\* given, it returns an instance and raises nothing.
C7_DefaultLoadIsTotal ==
  (last.op = "load" /\ ~ cfg.raises) => last.kind \in {"live", "null"}

\* C8: with signing keys configured, a load of an id whose signature does not
\* verify makes no store call and gives the null instance carrying the id
\* (default) or raises InvalidSessionIdError (strict); no load of such an
\* id ever stands before a store call.
C8_BadSignatureNoStore ==
  /\ (/\ last.op = "load" /\ last.sid # EmptySid /\ Len(cfg.keys) > 0
      /\ BadSignature(last.sid, cfg.keys))
     => /\ last.calls = <<>>
        /\ IF cfg.raises
           THEN last.kind = "raise" /\ last.exc = "InvalidSessionIdError"
           ELSE last.kind = "null" /\ last.value.session_id = last.sid
  /\ \A p \in Procs :
       (pc[p] \in {"load_clock", "load_write"} /\ Len(cfg.keys) > 0)
         => ~ BadSignature(loc[p].sid, cfg.keys)

\* C8 witness: a load of an id with a forged signature has come back with the
\* null instance while the session it was forged from has an item in the table
C8_Witness ==
  /\ last.op = "load" /\ last.kind = "null" /\ last.calls = <<>>
  /\ \E s \in DOMAIN store : last.sid = Tampered(s) /\ last.sid # s

\* C9: once clear(id) has completed, and until a save writes id again, the
\* table holds no item for id and a load of id gives the null instance or
\* raises SessionNotFoundError, whatever calls overlapped the clear.
C9_ClearedStaysCleared ==
  /\ cleared \cap DOMAIN store = {}
  /\ (last.op = "load" /\ last.sid \in cleared) => NullOrNotFound(last)

\* C10: save never modifies created: the update_item of a save leaves the
\* created attribute of an existing item as it was.
C10_SaveKeepsCreated ==
  [][\A p \in Procs :
       (pc[p] = "save_write" /\ pc'[p] = "idle" /\ loc[p].sid \in DOMAIN store)
         => store'[loc[p].sid].created = store[loc[p].sid].created]_vars
\* the attributes of an item that only a full write sets
FullWriteAttributes == {"idle_timeout", "absolute_timeout", "data"}
\* this step is the update_item of a call of p that stood at pc value `at`
WriteOf(p, at) == pc[p] = at /\ pc'[p] = "idle"

\* C11: the refresh of a load that found a record writes accessed = t, the
\* load's reading of the clock, and
\* expires = min(stored created + stored absolute_timeout,
\* t + stored idle_timeout), and leaves the item's created, idle_timeout,
\* absolute_timeout and data as they were.
C11_LoadRefresh ==
  [][\A p \in Procs :
       /\ (pc[p] = "load_clock" /\ pc'[p] = "load_write")
            => loc'[p].fields.accessed = IsoFormat(current_datetime)
       /\ WriteOf(p, "load_write") =>
            /\ loc[p].sid \in DOMAIN store
            /\ LET old == store[loc[p].sid]
                   new == store'[loc[p].sid]
               IN  /\ new.accessed = loc[p].fields.accessed
                   /\ new.expires =
                        Min(Timestamp(FromIsoFormat(old.created)) + old.absolute_timeout,
                            Timestamp(FromIsoFormat(new.accessed)) + old.idle_timeout)
                   /\ DOMAIN new = DOMAIN old
                   /\ \A a \in {"created"} \cup FullWriteAttributes : new[a] = old[a]]_vars
\* C12: the instance a load returns carries the record's stored created,
\* idle_timeout, absolute_timeout and payload (and the id asked for), whatever
\* the timeouts of the manager that loads it: the load's query takes them
\* from the item in the table, and the instance returned is built from them.
C12_LoadedCarriesStored ==
  [][\A p \in Procs :
       /\ (pc[p] = "idle" /\ pc'[p] = "load_clock") =>
            LET rec == store[loc'[p].sid]
                d == loc'[p].data
            IN  /\ d.created = rec.created /\ d.data = rec.data
                /\ d.idle_timeout = rec.idle_timeout
                /\ d.absolute_timeout = rec.absolute_timeout
       /\ WriteOf(p, "load_write") =>
            LET d == loc[p].data
                v == last'.value
            IN  /\ last'.op = "load" /\ last'.kind = "live"
                /\ v.kind = "dict" /\ v.session_id = loc[p].sid
                /\ v.created = FromIsoFormat(d.created)
                /\ v.idle_timeout_seconds = d.idle_timeout
                /\ v.absolute_timeout_seconds = d.absolute_timeout
                /\ v.payload = JsonLoads(d.data)]_vars

\* C12 witness: a load has returned an instance with a payload and with both
\* timeouts other than the manager's own
C12_Witness ==
  /\ last.op = "load" /\ last.kind = "live"
  /\ last.value.idle_timeout_seconds # cfg.idle
  /\ last.value.absolute_timeout_seconds # cfg.absolute
  /\ last.value.payload # EmptyDict
\* C13: store round trip.  A load of the id that follows a save(instance)
\* with no other call in between, and before the record expires, finds the
\* record and returns an instance whose payload equals the payload saved.
C13_SaveLoadRoundTrip ==
  [][\A p \in Procs :
       /\ (/\ last.op = "save" /\ last.kind = "none" /\ LoadCall(p, last.sid)
           /\ last.sid \in DOMAIN store
           /\ current_timestamp < store[last.sid].expires)
          => /\ pc'[p] = "load_clock"
             /\ LoadedInstance(last.sid, loc'[p].data).payload = last.arg.payload
       /\ WriteOf(p, "load_write") =>
            (last'.kind = "live" /\ last'.value = LoadedInstance(loc[p].sid, loc[p].data))]_vars

\* C13 witness: a load has read back, and is about to return, a non-empty
\* payload, which only a save can have written (create_and_save writes the
\* empty one)
C13_Witness ==
  \E p \in Procs :
    /\ pc[p] = "load_write" /\ loc[p].sid \in DOMAIN store
    /\ loc[p].data.data = store[loc[p].sid].data
    /\ LoadedInstance(loc[p].sid, loc[p].data).payload \in Payloads \ {EmptyDict}
\* C14: save(instance), reading the clock at t, writes in one update the
\* instance's payload and timeouts, accessed = t and
\* expires = min(instance.created + instance.absolute_timeout,
\* t + instance.idle_timeout); and the timeouts it wrote govern expiry from
\* then on: a load takes the timeouts stored in the item it finds and
\* computes the refreshed expires from them.
C14_SaveWrites ==
  [][\A p \in Procs :
       /\ (pc[p] = "idle" /\ pc'[p] = "save_write")
            => loc'[p].fields.accessed = IsoFormat(current_datetime)
       /\ WriteOf(p, "save_write") =>
            LET obj == loc[p].obj
                new == store'[obj.session_id]
            IN  /\ new.accessed = loc[p].fields.accessed
                /\ new.data = JsonDumps(obj.payload)
                /\ new.idle_timeout = obj.idle_timeout_seconds
                /\ new.absolute_timeout = obj.absolute_timeout_seconds
                /\ new.expires =
                     Min(Timestamp(obj.created) + obj.absolute_timeout_seconds,
                         Timestamp(FromIsoFormat(new.accessed)) + obj.idle_timeout_seconds)
       /\ (pc[p] = "idle" /\ pc'[p] = "load_clock") =>
            /\ loc'[p].data.idle_timeout = store[loc'[p].sid].idle_timeout
            /\ loc'[p].data.absolute_timeout = store[loc'[p].sid].absolute_timeout
       /\ (pc[p] = "load_clock" /\ pc'[p] = "load_write") =>
            loc'[p].fields.expires =
              Min(Timestamp(FromIsoFormat(loc[p].data.created)) + loc[p].data.absolute_timeout,
                  current_timestamp + loc[p].data.idle_timeout)]_vars

\* C14 witness: a save has just written, at a later tick than the instance's
\* creation, a payload and timeouts that are not the manager's
C14_Witness ==
  /\ last.op = "save" /\ last.sid \in DOMAIN store
  /\ store[last.sid].idle_timeout = last.arg.idle_timeout_seconds
  /\ store[last.sid].idle_timeout # cfg.idle
  /\ store[last.sid].absolute_timeout # cfg.absolute
  /\ store[last.sid].data = JsonDumps(last.arg.payload) /\ last.arg.payload # EmptyDict
  /\ FromIsoFormat(store[last.sid].accessed).t > last.arg.created.t
\* the attributes of a full record
RecordAttributes == {"created", "accessed", "expires"} \cup FullWriteAttributes

\* C15: create_and_save writes a full record whose created and accessed are
\* the same instant, now, with expires = min(now + absolute_timeout,
\* now + idle_timeout) and the instance's timeouts and payload.
C15_CreateAndSaveRecord ==
  [][\A p \in Procs :
       WriteOf(p, "cas_write") =>
         LET obj == loc[p].obj
             new == store'[obj.session_id]
             t == Timestamp(FromIsoFormat(new.accessed))
         IN  /\ DOMAIN new = RecordAttributes
             /\ new.created = new.accessed
             /\ new.expires = Min(t + obj.absolute_timeout_seconds,
                                  t + obj.idle_timeout_seconds)
             /\ new.idle_timeout = obj.idle_timeout_seconds
             /\ new.absolute_timeout = obj.absolute_timeout_seconds
             /\ new.data = JsonDumps(obj.payload)]_vars
\* C16: the expiration calculator fails, returning no value, whenever created
\* or accessed is not a UTC instant (naive, or at another offset); created is
\* checked first.
C16_NonUtcIsAnError ==
  (/\ fout # <<>>
   /\ (fin[1].created.tz # "UTC" \/ fin[1].accessed.tz # "UTC"))
  => /\ ~ fout[1].ok
     /\ fout[1].error = IF fin[1].created.tz # "UTC" THEN "'created' must be UTC "
                        ELSE "'accessed' must be UTC "

\* C16 witness: the calculator has refused a naive created together with an
\* accessed at +01:00, and named created
C16_Witness ==
  /\ fout # <<>> /\ ~ fout[1].ok
  /\ fin[1].created.tz = "naive" /\ fin[1].accessed.tz = "UTC+01:00"
  /\ fout[1].error = "'created' must be UTC "
C18_ClearIdempotent ==
  [][last'.op = "clear" =>
       /\ last'.kind = "none" /\ last'.calls = <<"delete_item">>
       /\ last'.sid \notin DOMAIN store'
       /\ \A k \in DOMAIN store \ {last'.sid} : k \in DOMAIN store' /\ store'[k] = store[k]
       /\ last'.sid \notin DOMAIN store => store' = store
       /\ (last.op = "clear" /\ last.sid = last'.sid) => store' = store]_vars

\* C18 witness: a clear of an id that has no item has returned, and the
\* table still holds the item of the session there is
C18_Witness ==
  /\ last.op = "clear" /\ last.kind = "none" /\ last.sid = UnknownSid
  /\ DOMAIN store # {}
\* C19: on a manager with signing keys, every id create or create_and_save
\* has issued passes validation, so a load of it ends in the signature branch
\* neither way (no InvalidSessionIdError, no null without a query); and a load
\* that follows create/save of such an id, before expiry, returns the payload
\* saved.
C19_IssuedIdValidates ==
  [][Len(cfg.keys) > 0 =>
       /\ \A h \in handles' :
            /\ h.session_id.sig # <<>>
            /\ validate_session_id(h.session_id, cfg.keys) = "ok"
       /\ (last'.op = "load" /\ last'.sid \in KnownSids) =>
            /\ last'.exc # "InvalidSessionIdError"
            /\ last'.kind = "live" \/ last'.calls = <<"query">>
       /\ \A p \in Procs :
            (/\ last.op = "save" /\ last.kind = "none" /\ LoadCall(p, last.sid)
             /\ Visible(last.sid))
            => /\ pc'[p] = "load_clock"
               /\ LoadedInstance(last.sid, loc'[p].data).payload = last.arg.payload]_vars

\* C19 witness: on a manager with a signing key, a load of the signed id it
\* issued has found the record and is about to return its non-empty payload
C19_Witness ==
  \E p \in Procs :
    /\ Len(cfg.keys) > 0
    /\ pc[p] = "load_write" /\ loc[p].sid \in KnownSids
    /\ loc[p].sid.sig = Signature(KnownKey, loc[p].sid.tok)
    /\ LoadedInstance(loc[p].sid, loc[p].data).payload \in Payloads \ {EmptyDict}
\* C20: create and create_and_save build the instance with the effective
\* timeouts: each of idle and absolute is the override of the call when one
\* is given and the manager's configured value otherwise, whatever the other
\* is; and create_and_save returns the instance it built.
C20_EffectiveTimeouts ==
  [][\A p \in Procs, io \in IdleOverrides, ao \in AbsoluteOverrides :
       LET idle == IF io = <<>> THEN cfg.idle ELSE io[1]
           absolute == IF ao = <<>> THEN cfg.absolute ELSE ao[1]
       IN  /\ Create(p, io, ao) =>
                /\ last'.op = "create" /\ last'.kind = "live"
                /\ last'.value.idle_timeout_seconds = idle
                /\ last'.value.absolute_timeout_seconds = absolute
           /\ CasConstruct(p, io, ao) =>
                /\ loc'[p].obj.idle_timeout_seconds = idle
                /\ loc'[p].obj.absolute_timeout_seconds = absolute
           /\ WriteOf(p, "cas_write") =>
                (last'.kind = "live" /\ last'.value = loc[p].obj)]_vars

\* C20 witness: create_and_save has returned an instance with the idle
\* timeout of the call's override and the absolute timeout of the manager
C20_Witness ==
  /\ last.op = "create_and_save" /\ last.kind = "live"
  /\ last.value.idle_timeout_seconds \in {io[1] : io \in IdleOverrides \ {<<>>}}
  /\ last.value.idle_timeout_seconds # cfg.idle
  /\ last.value.absolute_timeout_seconds = cfg.absolute
  /\ cfg.absolute \notin {ao[1] : ao \in AbsoluteOverrides \ {<<>>}}
\* C21: round trip of the dictionary payload: for every JSON-safe map x,
\* deserializing serialize(x) into an empty dictionary instance yields a map
\* equal to x.
C21_DictRoundTrip ==
  (fout # <<>> /\ fin[1].into = EmptyDict) => fout[1].payload = fin[1].x

\* C21 witness: a map with an entry for every key, the values differing, has
\* come back from the round trip into an empty instance
C21_Witness ==
  /\ fout # <<>> /\ fin[1].into = EmptyDict
  /\ DOMAIN fin[1].x = KeySet
  /\ \E j, k \in KeySet : fin[1].x[j] # fin[1].x[k]
  /\ fout[1].payload = fin[1].x
\* C22: in strict mode (bad_session_id_raises true) a load of the empty id
\* raises SessionNotFoundError constructed with the digest of the empty
\* string, and makes no store call.
C22_EmptyIdStrict ==
  (last.op = "load" /\ last.sid = EmptySid /\ cfg.raises)
  => /\ last.kind = "raise" /\ last.exc = "SessionNotFoundError"
     /\ last.loggable_sid = loggable_session_id(EmptySid)
     /\ last.calls = <<>>

\* C22 witness: a strict manager has raised SessionNotFoundError for the
\* empty id while its table holds an item
C22_Witness ==
  /\ last.op = "load" /\ last.sid = EmptySid /\ cfg.raises
  /\ last.kind = "raise" /\ last.exc = "SessionNotFoundError"
  /\ DOMAIN store # {}
\* expires as derived from the item's own created, accessed and timeouts
DerivedExpires(item) ==
  Min(Timestamp(FromIsoFormat(item.created)) + item.absolute_timeout,
      Timestamp(FromIsoFormat(item.accessed)) + item.idle_timeout)

\* C23: in every reachable state of the table, however the reads and writes
\* of concurrent calls interleave, each record's expires equals
\* min(stored created + stored absolute_timeout,
\* stored accessed + stored idle_timeout).
C23_ExpiresIsDerived ==
  \A sid \in DOMAIN store :
    RecordAttributes \subseteq DOMAIN store[sid]
      => store[sid].expires = DerivedExpires(store[sid])
\* C24: when loads of the same id overlap, each refresh write only extends
\* the record: it never lowers the stored expires, nor the stored accessed,
\* below the value the item already holds.
C24_RefreshOnlyExtends ==
  [][\A p \in Procs :
       (WriteOf(p, "load_write") /\ loc[p].sid \in DOMAIN store) =>
         /\ store'[loc[p].sid].expires >= store[loc[p].sid].expires
         /\ FromIsoFormat(store'[loc[p].sid].accessed).t
              >= FromIsoFormat(store[loc[p].sid].accessed).t]_vars
\* the pc values at which a call stands before its update_item
WritePoints == {"cas_write", "load_write", "save_write"}
\* the timeouts the call at p computed its expires from
WriterTimeouts(l) == IF l.op = "save" THEN l.fields ELSE l.data

\* C25: every change of an item, a change of accessed in particular, is the
\* one update_item of one call, and that request sets accessed together with
\* the expires the call computed from that accessed: after the step the item
\* holds the writer's accessed and the writer's expires, so no state pairs
\* an accessed with an expires its writer has yet to send.
C25_AccessedWithExpires ==
  [][\A sid \in DOMAIN store' :
       (sid \notin DOMAIN store \/ store'[sid] # store[sid]) =>
         \E p \in Procs :
           /\ pc[p] \in WritePoints /\ pc'[p] = "idle" /\ loc[p].sid = sid
           /\ \A q \in Procs \ {p} : pc'[q] = pc[q]
           /\ last'.calls = Append(loc[p].calls, "update_item")
           /\ {"accessed", "expires"} \subseteq DOMAIN store'[sid]
           /\ store'[sid].accessed = loc[p].fields.accessed
           /\ store'[sid].expires = loc[p].fields.expires
           /\ store'[sid].expires =
                Min(Timestamp(FromIsoFormat(loc[p].fields.created))
                      + WriterTimeouts(loc[p]).absolute_timeout,
                    Timestamp(FromIsoFormat(loc[p].fields.accessed))
                      + WriterTimeouts(loc[p]).idle_timeout)]_vars

\* C25 witness: a load's refresh has just moved accessed to a later second
\* than created, and expires with it
C25_Witness ==
  /\ last.op = "load" /\ last.kind = "live" /\ last.sid \in DOMAIN store
  /\ RecordAttributes \subseteq DOMAIN store[last.sid]
  /\ StoredAccessed(last.sid) > StoredCreated(last.sid)
  /\ store[last.sid].expires = StoredAccessed(last.sid) + store[last.sid].idle_timeout
  /\ store[last.sid].expires > StoredCreated(last.sid) + store[last.sid].idle_timeout
\* C26: in every reachable state of the table every record satisfies
\* created <= accessed, whatever the sequence and interleaving of create,
\* create_and_save, save, load and clear (the clock never goes back).
C26_CreatedBeforeAccessed ==
  \A sid \in DOMAIN store :
    FromIsoFormat(store[sid].created).t <= FromIsoFormat(store[sid].accessed).t

\* C26 witness: a load has refreshed a record whose stored created is the
\* later of create_and_save's two clock readings (later than the created of
\* the instance it returned), and accessed is later still
C26_Witness ==
  /\ last.op = "load" /\ last.kind = "live" /\ last.sid \in DOMAIN store
  /\ \E h \in handles :
       h.session_id = last.sid /\ h.created.t < FromIsoFormat(store[last.sid].created).t
  /\ FromIsoFormat(store[last.sid].created).t < FromIsoFormat(store[last.sid].accessed).t
\* C27: if clear(id) completes while a load(id) stands between its query and
\* its refresh write then, once the calls have finished and no save has
\* written id since, the table holds no item for id: the refresh of a load
\* never re-creates a deleted record.
C27_RefreshNeverRecreates ==
  [][\A p \in Procs :
       (WriteOf(p, "load_write") /\ loc[p].sid \notin DOMAIN store)
         => loc[p].sid \notin DOMAIN store']_vars

\* C28: every item of the table carries all of data, idle_timeout,
\* absolute_timeout, created, accessed and expires, in every reachable
\* state; no partial record of accessed, expires and created alone exists.
C28_RecordsAreFull ==
  \A sid \in DOMAIN store : DOMAIN store[sid] = RecordAttributes
\* the item of sid has expired: the query's filter hides it
Expired(sid) == sid \in DOMAIN store /\ store[sid].expires <= current_timestamp

\* C29: once a record's expires is <= now, no later load, and no later save
\* of an instance with the record's timeouts and created, makes the record
\* readable again: a load called then makes no refresh, and after the write
\* of such a save the record is still expired.
C29_ExpiredStaysExpired ==
  [][\A p \in Procs :
       /\ \A sid \in DOMAIN store :
            (LoadCall(p, sid) /\ Expired(sid)) => (pc'[p] = "idle" /\ store' = store)
       /\ (/\ WriteOf(p, "save_write") /\ Expired(loc[p].sid)
           /\ RecordAttributes \subseteq DOMAIN store[loc[p].sid]
           /\ loc[p].obj.idle_timeout_seconds = store[loc[p].sid].idle_timeout
           /\ loc[p].obj.absolute_timeout_seconds = store[loc[p].sid].absolute_timeout
           /\ IsoFormat(loc[p].obj.created) = store[loc[p].sid].created)
          => store'[loc[p].sid].expires <= current_timestamp]_vars
\* C30: Expired-or-Missing is terminal.  Once a load of an id has given the
\* null instance (or raised SessionNotFoundError), later loads of it do the
\* same until a save writes the id: when the step after such a load is the
\* refresh write of another load still in flight, that write does not make
\* the record pass the query's filter again.
C30_MissingIsTerminal ==
  [][\A p \in Procs :
       (/\ last.op = "load" /\ NullOrNotFound(last)
        /\ WriteOf(p, "load_write") /\ loc[p].sid = last.sid)
       => ~ (/\ last.sid \in DOMAIN store'
             /\ store'[last.sid].expires > current_timestamp)]_vars
\* C31: deserialize on the dictionary instance is a full replace: after
\* deserialize(d) the instance's entries are exactly the decoded map; keys it
\* held before that the decoded map lacks are gone.
C31_DeserializeReplaces ==
  fout # <<>> =>
    /\ fout[1].payload = JsonLoads(JsonDumps(fin[1].x))
    /\ DOMAIN fout[1].payload = DOMAIN fin[1].x
\* C32: the refresh write of a load (modified false) sets only accessed and
\* expires; data, idle_timeout, absolute_timeout and created are set only by
\* the full writes of create_and_save and save.
C32_RefreshWritesTwo ==
  [][\A p \in Procs :
       /\ WriteOf(p, "load_write") => DOMAIN loc[p].fields = {"accessed", "expires"}
       /\ (WriteOf(p, "cas_write") \/ WriteOf(p, "save_write"))
            => DOMAIN loc[p].fields = RecordAttributes]_vars
\* C33: a load that gives the null instance or raises (unknown, expired,
\* cleared, empty or badly signed id) makes no store write: the table after
\* the call is the table before it, and the call issued no update_item.
C33_NullLoadWritesNothing ==
  [][(last'.op = "load" /\ last'.kind \in {"null", "raise"}) =>
       /\ store' = store
       /\ last'.calls \in {<<>>, <<"query">>}]_vars

\* C33 witness: a load has come back empty-handed for an id whose expired
\* item is still in the table, untouched
C33_Witness ==
  /\ last.op = "load" /\ NullOrNotFound(last) /\ last.calls = <<"query">>
  /\ Expired(last.sid)
\* ------------------------------------------------------- failing store calls
\* A call of the boto client can fail (connectivity, throttling, permission):
\* it raises, and no statement of _session.py catches what it raises.
StoreFailure == "ClientError"

\* _session.py:263-274: the query of a load fails
QueryFails(p, session_id) ==
  /\ pc[p] = "idle"
  /\ validate_session_id(session_id, cfg.keys) = "ok"
  /\ Return(p, Raises([Called(p, "load", session_id) EXCEPT !.calls = <<"query">>],
                      StoreFailure))
  /\ UNCHANGED <<now, cfg, store, issued, handles, cleared, fin, fout>>

UpdateFails_retry(p, at) ==
  \* a mutant: the failed update is sent a second time, and goes through
  /\ pc[p] = at
  /\ store' = UpdateItem(store, loc[p].sid, loc[p].fields)
  /\ Return(p, [Called(p, loc[p].op, loc[p].sid) EXCEPT
                  !.calls = loc[p].calls \o <<"update_item", "update_item">>])
  /\ UNCHANGED <<now, cfg, issued, handles, cleared, fin, fout>>

\* _session.py:311-316: the update_item of a save, create_and_save or load fails
UpdateFails(p, at) ==
  /\ pc[p] = at
  /\ Return(p, Raises([Called(p, loc[p].op, loc[p].sid) EXCEPT
                         !.calls = Append(loc[p].calls, "update_item")],
                      StoreFailure))
  /\ UNCHANGED <<now, cfg, store, issued, handles, cleared, fin, fout>>

\* _session.py:255-257: the delete_item of a clear fails
DeleteFails(p, session_id) ==
  /\ pc[p] = "idle"
  /\ Return(p, Raises([Called(p, "clear", session_id) EXCEPT !.calls = <<"delete_item">>],
                      StoreFailure))
  /\ UNCHANGED <<now, cfg, store, issued, handles, cleared, fin, fout>>

\* SpecFaults: the one caller of SpecSeq against a table whose calls can fail
NextFaults ==
  \/ NextSeq
  \/ \E p \in SeqProcs :
       \/ \E sid \in SeqCallers.probes \cup KnownSids : QueryFails(p, sid)
       \/ \E at \in WritePoints : UpdateFails(p, at)
       \/ \E sid \in ClearSids : DeleteFails(p, sid)

SpecFaults == InitSeq /\ [][NextFaults]_vars

\* C34: no retries, no wrapping.  create issues no store call; save and
\* create_and_save issue exactly one update_item; clear exactly one
\* delete_item; load at most one query, followed by at most one update_item.
\* When a store call fails, the caller gets the store's own error, the
\* failed call is the last the operation issued, and the table is untouched.
C34_NoRetryNoWrap ==
  [][last'.op # "none" =>
       /\ last'.op = "create" => last'.calls = <<>>
       /\ last'.op \in {"save", "create_and_save"} => last'.calls = <<"update_item">>
       /\ last'.op = "clear" => last'.calls = <<"delete_item">>
       /\ last'.op = "load" =>
            last'.calls \in {<<>>, <<"query">>, <<"query", "update_item">>}
       /\ (\E p \in SeqProcs :
             \/ \E sid \in SeqCallers.probes \cup KnownSids : QueryFails(p, sid)
             \/ \E at \in WritePoints : UpdateFails(p, at)
             \/ \E sid \in ClearSids : DeleteFails(p, sid))
           => /\ last'.kind = "raise" /\ last'.exc = StoreFailure
              /\ store' = store
              /\ pc'[last'.p] = "idle"]_vars

\* C34 witness: the refresh update_item of a load has failed after its query
\* went through, and the caller has the store's error
C34_Witness ==
  /\ last.op = "load" /\ last.kind = "raise" /\ last.exc = StoreFailure
  /\ last.calls = <<"query", "update_item">>
\* the ids the callers hand to load
LoadIds == SeqCallers.probes \cup KnownSids \cup {Tampered(s) : s \in KnownSids}
\* this step of p's load(sid) queried the table under key: its outcome is
\* that of the query for key on the table as it stands
LookedUpAs(p, sid, key) ==
  LET res == Query(store, key, current_timestamp)
  IN  IF res = <<>>
        THEN /\ last'.p = p /\ last'.calls = <<"query">> /\ NullOrNotFound(last')
      ELSE IF ~ (DynamoGetAttributes \subseteq DOMAIN res[1])
        THEN last'.p = p /\ last'.calls = <<"query">> /\ last'.exc = "KeyError"
      ELSE /\ pc'[p] = "load_clock" /\ loc'[p].sid = sid
           /\ loc'[p].data = DynamoData(res[1].data, res[1].idle_timeout,
                                        res[1].absolute_timeout, res[1].created)
\* ... for exactly sid
LookedUp(p, sid) == LookedUpAs(p, sid, sid)

Unsign(sid) == [sid EXCEPT !.sig = <<>>]
\* the table changed in this step at key and nowhere else
WroteOnly(key) ==
  /\ key \in DOMAIN store'
  /\ \A k \in (DOMAIN store \cup DOMAIN store') \ {key} :
       k \in DOMAIN store /\ k \in DOMAIN store' /\ store'[k] = store[k]

\* C36, as stated: with signing keys, validation on load verifies the
\* signature and strips it, and the unsigned token is the key under which
\* load reads and refreshes the record.
C36_LoadKeyIsToken ==
  [][Len(cfg.keys) > 0 =>
       \A p \in Procs :
         /\ \A sid \in LoadIds \ {EmptySid} :
              LoadCall(p, sid) =>
                IF BadSignature(sid, cfg.keys) THEN last'.calls = <<>>
                ELSE LookedUpAs(p, sid, Unsign(sid))
         /\ WriteOf(p, "load_write") => WroteOnly(Unsign(loc[p].sid))]_vars

\* C36, amended: with signing keys, validation on load verifies the signature
\* and nothing more; the key under which load reads and refreshes the record
\* is the id as supplied, signature included.
C36_LoadKeyIsSignedId ==
  [][Len(cfg.keys) > 0 =>
       \A p \in Procs :
         /\ \A sid \in LoadIds \ {EmptySid} :
              LoadCall(p, sid) =>
                IF BadSignature(sid, cfg.keys) THEN last'.calls = <<>>
                ELSE LookedUpAs(p, sid, sid)
         /\ WriteOf(p, "load_write") =>
              (WroteOnly(loc[p].sid) /\ loc[p].sid.sig # <<>>)]_vars

\* C36 witness: a load of a signed id has returned a live instance, and the
\* table holds the record under the signed id, none under the bare token
C36_Witness ==
  /\ Len(cfg.keys) > 0
  /\ last.op = "load" /\ last.kind = "live"
  /\ last.sid.sig = Signature(KnownKey, last.sid.tok)
  /\ last.sid \in DOMAIN store /\ Unsign(last.sid) \notin DOMAIN store
\* C37: when two saves of the same id overlap, the record is at every moment
\* the complete attribute set of one of them: the update_item of a save
\* leaves the item equal to that save's six attributes (data, idle_timeout,
\* absolute_timeout, created, accessed, expires), none kept from the other.
C37_SavesNeverMix ==
  [][\A p \in Procs :
       WriteOf(p, "save_write") =>
         /\ DOMAIN loc[p].fields = RecordAttributes
         /\ store'[loc[p].sid] = loc[p].fields
         /\ loc[p].fields.data = JsonDumps(loc[p].obj.payload)
         /\ loc[p].fields.idle_timeout = loc[p].obj.idle_timeout_seconds
         /\ loc[p].fields.absolute_timeout = loc[p].obj.absolute_timeout_seconds]_vars

\* C37 witness: a save has just written the record while another save of the
\* id, begun before that write, is about to write other data and timeouts
C37_Witness ==
  \E q \in Procs :
    /\ last.op = "save" /\ last.p # q /\ last.sid \in DOMAIN store
    /\ pc[q] = "save_write" /\ loc[q].sid = last.sid
    /\ loc[q].fields.data # store[last.sid].data
    /\ loc[q].fields.idle_timeout # store[last.sid].idle_timeout
\* C38: operations on one session id never change another session's record:
\* whenever an item appears, changes or goes, the step is the update_item of
\* a save, load or create_and_save of that very id, or a clear of it.
C38_OtherRecordsUntouched ==
  [][\A k \in DOMAIN store \cup DOMAIN store' :
       (k \notin DOMAIN store \/ k \notin DOMAIN store' \/ store'[k] # store[k]) =>
         \/ last'.op = "clear" /\ last'.sid = k
         \/ \E p \in Procs :
              pc[p] \in WritePoints /\ pc'[p] = "idle" /\ loc[p].sid = k]_vars

\* C38 witness: one session has just been cleared and is gone, while the
\* record of the other session is in the table
C38_Witness ==
  /\ last.op = "clear" /\ last.sid \in KnownSids /\ last.sid \notin DOMAIN store
  /\ \E k \in DOMAIN store : k # last.sid /\ k \in KnownSids
\* C39: every persisted record has idle_timeout > 0 and absolute_timeout > 0,
\* whatever overrides create and create_and_save were passed and whatever
\* timeouts were set on an instance before save.
C39_StoredTimeoutsPositive ==
  \A sid \in DOMAIN store :
    (FullWriteAttributes \subseteq DOMAIN store[sid])
      => (store[sid].idle_timeout > 0 /\ store[sid].absolute_timeout > 0)
====
